---- MODULE Spec2Model ----
(***************************************************************************)
(* Model of vold's startup bootstrap (src/main.cpp): vold_main,            *)
(* parse_args, process_config, coldboot / do_coldboot, together with the   *)
(* part of the environment they read and write (fstab, /proc/cmdline,      *)
(* the sysfs tree under /sys/block, the netlink socket).                   *)
(*                                                                         *)
(* Text is modelled as sequences of one-character strings, so that find,   *)
(* substr, the digit scan and stoi are computed as the code computes them. *)
(* A pointer or file that may be absent is a sequence of length 0 (NULL /  *)
(* unreadable) or 1 (the value).                                           *)
(***************************************************************************)
EXTENDS Integers, Sequences, FiniteSets, TLC

VARIABLES
    pc,             \* position of the main thread in vold_main
    argv,           \* environment: the security-context options on the command line
    contexts,       \* the security-context options parse_args has stored
    fstabFile,      \* environment: the default fstab, <<>> when it cannot be loaded
    procCmdline,    \* environment: /proc/cmdline, <<>> when it cannot be read
    debugProp,      \* environment: property vold.debug.default_primary
    sysfs,          \* environment: the tree under /sys/block
    fstab,          \* global struct fstab *fstab; <<>> is NULL
    i,              \* loop index of process_config
    has_adoptable,  \* vold_main's local bool has_adoptable
    configResult,   \* what process_config returned: "pending", "error" (-1), "ok" (0)
    sdcard,         \* the raw SDCARD= token process_config extracted (<<>> if none)
    isDisk,         \* outcome of the access("/sys/block/<token>", X_OK) probe
    diskSources,    \* the DiskSource objects passed to vm->addDiskSource, in call order
    nmStarted,      \* NetlinkManager::start has succeeded: the listener thread runs
    sock,           \* uevents queued on the netlink socket
    seen,           \* per device, the number of add events the listener handled
    matched,        \* the rule lists the listener matched events against
    hotplugs,       \* real hotplug events the kernel may still produce
    plug,           \* per directory: "boot" (there from the start), "absent",
                    \* "early" or "late" (plugged in before or after nm->start)
    stack,          \* call stack of do_coldboot frames
    visitLog,       \* what the coldboot walk did, in order
    clStarted,      \* CommandListener::startListener has succeeded
    cclStarted,     \* CryptCommandListener::startListener has succeeded
    hasAdoptableProp \* property vold.has_adoptable: "unset", "0" or "1"

vars == <<pc, argv, contexts, fstabFile, procCmdline, debugProp, sysfs, fstab, i,
          has_adoptable, configResult, sdcard, isDisk, diskSources, nmStarted,
          sock, seen, matched, hotplugs, plug, stack, visitLog, clStarted, cclStarted,
          hasAdoptableProp>>

(***************************************************************************)
(* Bounds of the model.                                                    *)
(***************************************************************************)
MaxEntries == 2     \* longest fstab in the mixed-entry family
MaxRunLen == 2      \* longest enumerated trailing digit run
MaxHotplug == 1     \* real hotplug events per run

(***************************************************************************)
(* Text helpers: std::string operations used by process_config.            *)
(***************************************************************************)
npos == -1          \* std::string::npos (the largest size_t), "not found"

INT_MAX == 2147483647

Min(a, b) == IF a < b THEN a ELSE b

\* ::isdigit in the C locale
isdigit(c) == c \in {"0", "1", "2", "3", "4", "5", "6", "7", "8", "9"}

DigitValue(c) ==
    CASE c = "0" -> 0 [] c = "1" -> 1 [] c = "2" -> 2 [] c = "3" -> 3
      [] c = "4" -> 4 [] c = "5" -> 5 [] c = "6" -> 6 [] c = "7" -> 7
      [] c = "8" -> 8 [] c = "9" -> 9

\* s.substr(pos): the characters from 0-based position pos to the end
substr1(s, pos) == SubSeq(s, pos + 1, Len(s))

\* s.substr(0, n): at most n characters from the start; n = npos keeps all
substr0(s, n) == IF n = npos THEN s ELSE SubSeq(s, 1, Min(n, Len(s)))

\* s.find(pat): 0-based position of the first occurrence of pat, or npos
find(s, pat) ==
    LET hits == {p \in 0..(Len(s) - Len(pat)) :
                    SubSeq(s, p + 1, p + Len(pat)) = pat}
    IN  IF hits = {} THEN npos
        ELSE CHOOSE p \in hits : \A q \in hits : p <= q

\* s.find_first_of(" \n"): 0-based position of the first space or newline
find_first_of(s, chars) ==
    LET hits == {p \in 0..(Len(s) - 1) : s[p + 1] \in chars}
    IN  IF hits = {} THEN npos
        ELSE CHOOSE p \in hits : \A q \in hits : p <= q

\* std::find_if_not(s.rbegin(), s.rend(), ::isdigit) followed by
\* std::distance(d, s.rend()): scanning from the end, the number of characters
\* up to and including the first non-digit met (0 when all are digits)
RECURSIVE find_if_not_digit(_, _)
find_if_not_digit(s, k) ==
    IF k = 0 THEN 0
    ELSE IF isdigit(s[k]) THEN find_if_not_digit(s, k - 1)
    ELSE k

\* std::stoi on a non-empty digit string: the decimal value, or the
\* std::out_of_range exception when the value does not fit an int
RECURSIVE stoi_from(_, _, _)
stoi_from(s, k, acc) ==
    IF k > Len(s) THEN [thrown |-> FALSE, value |-> acc]
    ELSE IF acc > (INT_MAX - DigitValue(s[k])) \div 10
         THEN [thrown |-> TRUE, value |-> 0]
         ELSE stoi_from(s, k + 1, acc * 10 + DigitValue(s[k]))

stoi(s) == stoi_from(s, 1, 0)

(***************************************************************************)
(* process_config: the disk-source rules.                                  *)
(***************************************************************************)
SDCARD_EQ == <<"S", "D", "C", "A", "R", "D", "=">>
MMCBLK == <<"m", "m", "c", "b", "l", "k">>
NVME == <<"n", "v", "m", "e">>
DEVICES_PREFIX == <<"/", "d", "e", "v", "i", "c", "e", "s", "/", "*", "/">>
AUTO == <<"a", "u", "t", "o">>

\* android::vold::Disk::Flags, as the set of flag bits that are set
kAdoptable == "kAdoptable"
kDefaultPrimary == "kDefaultPrimary"
kNonRemovable == "kNonRemovable"

\* new VolumeManager::DiskSource(sysPattern, nickname, partnum, flags, fstype, mntopts)
DiskSource(sysPattern, nickname, partnum, flags, fstype, mntopts) ==
    [sysPattern |-> sysPattern, nickname |-> nickname, partnum |-> partnum,
     flags |-> flags, fstype |-> fstype, mntopts |-> mntopts]

\* std::string s; if (p) s = p;   (p is <<>> for NULL, <<text>> otherwise)
StringOrEmpty(p) == IF p = <<>> THEN <<>> ELSE p[1]

\* flags where the debug override only counts together with noemulatedsd
FlagsOf_DebugAndNoEmulated(rec, debugDefaultPrimary) ==
    (IF rec.encryptable THEN {kAdoptable} ELSE {})
    \cup (IF rec.noemulatedsd /\ debugDefaultPrimary THEN {kDefaultPrimary} ELSE {})
    \cup (IF rec.nonremovable THEN {kNonRemovable} ELSE {})

\* flags that leave out Adoptable
FlagsOf_NeverAdoptable(rec, debugDefaultPrimary) ==
    (IF rec.noemulatedsd \/ debugDefaultPrimary THEN {kDefaultPrimary} ELSE {})
    \cup (IF rec.nonremovable THEN {kNonRemovable} ELSE {})

\* the flags computed for one voldmanaged fstab record
FlagsOf(rec, debugDefaultPrimary) ==
    (IF rec.encryptable THEN {kAdoptable} ELSE {})
    \cup (IF rec.noemulatedsd \/ debugDefaultPrimary THEN {kDefaultPrimary} ELSE {})
    \cup (IF rec.nonremovable THEN {kNonRemovable} ELSE {})

\* the DiskSource built for one voldmanaged fstab record
FstabDiskSource(rec, debugDefaultPrimary) ==
    DiskSource(rec.blk_device, rec.label, rec.partnum,
               FlagsOf(rec, debugDefaultPrimary),
               StringOrEmpty(rec.fs_type), StringOrEmpty(rec.fs_options))

\* a loop that builds a rule for every fstab record
ProducesRule_EveryRecord(rec) == TRUE

\* fs_mgr_is_voldmanaged(&fstab->recs[i]), the test that guards rule creation
ProducesRule(rec) == rec.voldmanaged

\* s.rfind(pat): 0-based position of the last occurrence of pat, or npos
rfind(s, pat) ==
    LET hits == {p \in 0..(Len(s) - Len(pat)) :
                    SubSeq(s, p + 1, p + Len(pat)) = pat}
    IN  IF hits = {} THEN npos
        ELSE CHOOSE p \in hits : \A q \in hits : p >= q

\* a scan that takes the last "SDCARD=" of the line instead of the first
ExtractToken_LastOccurrence(path) ==
    LET pos == rfind(path, SDCARD_EQ)
    IN  IF pos = npos THEN <<>>
        ELSE LET rest == substr1(path, pos + 7)
             IN  substr0(rest, find_first_of(rest, {" ", "\n"}))

\* the text between the first "SDCARD=" and the next space or newline;
\* <<>> when there is no "SDCARD=" or nothing follows it
ExtractToken(path) ==
    LET pos == find(path, SDCARD_EQ)
    IN  IF pos = npos THEN <<>>
        ELSE LET rest == substr1(path, pos + 7)
             IN  substr0(rest, find_first_of(rest, {" ", "\n"}))

\* a normalisation that leaves the separator of mmcblk and nvme names in place
StripSeparator_Never(name, pos) == name

\* one further character is dropped after the digit run has been removed
StripSeparator(name, pos) ==
    LET afterMmc == IF find(name, MMCBLK) # npos THEN substr0(name, pos - 1) ELSE name
    IN  IF find(afterMmc, NVME) # npos THEN substr0(afterMmc, pos - 1) ELSE afterMmc

\* the device name and partition number derived from a non-empty token;
\* thrown is TRUE when std::stoi throws std::out_of_range
Normalize(token, disk) ==
    IF disk THEN [thrown |-> FALSE, name |-> token, partnum |-> -1]
    ELSE LET pos == find_if_not_digit(token, Len(token))
         IN  IF pos = Len(token)
             THEN [thrown |-> FALSE, name |-> token, partnum |-> -1]
             ELSE LET n == stoi(substr1(token, pos))
                  IN  IF n.thrown
                      THEN [thrown |-> TRUE, name |-> token, partnum |-> -1]
                      ELSE [thrown |-> FALSE,
                            name |-> StripSeparator(substr0(token, pos), pos),
                            partnum |-> n.value]

\* a rule whose pattern is the bare device name
SdcardDiskSource_NoPrefix(name, partnum) ==
    DiskSource(name, name, partnum, {kAdoptable}, AUTO, <<>>)

\* the DiskSource built from the normalised SDCARD= token
SdcardDiskSource(name, partnum) ==
    DiskSource(DEVICES_PREFIX \o name, name, partnum, {kAdoptable}, AUTO, <<>>)

(***************************************************************************)
(* vold_main: the order of the startup steps.                              *)
(***************************************************************************)
\* a bootstrap that starts the netlink listener before it reads the configuration
StartupOrder_ListenerFirst ==
    <<"parse_args", "instance", "vm_start", "nm_start", "process_config",
      "coldboot", "cl_start", "ccl_start", "property_set", "sleep">>


\* vold_main with the property published before the command listeners start
StartupOrder_PublishFirst ==
    <<"parse_args", "instance", "vm_start", "process_config", "nm_start", "coldboot",
      "property_set", "cl_start", "ccl_start", "sleep">>

StartupOrder ==
    <<"parse_args", "instance", "vm_start", "process_config", "nm_start",
      "coldboot", "cl_start", "ccl_start", "property_set", "sleep">>

\* the step vold_main goes to once `step` has completed
StepAfter(step) ==
    LET k == CHOOSE n \in 1..Len(StartupOrder) : StartupOrder[n] = step
    IN  StartupOrder[k + 1]

\* a process_config that logs the fstab failure and goes on to the command line
OnFstabFailure_Continue == "continue"

\* what process_config does when the fstab cannot be loaded: return -1 at once
OnFstabFailure == "return"

RequiredContexts ==
    {"blkid_context", "blkid_untrusted_context", "fsck_context", "fsck_untrusted_context"}

TerminalPcs ==
    {"abort_check", "abort_stoi", "exit_instance", "exit_vm_start", "exit_nm_start",
     "exit_cl_start", "exit_ccl_start"}

(***************************************************************************)
(* The coldboot walk: the sysfs tree and the recursion policy.             *)
(* sysfs.dirs maps a directory to its uevent entry ("absent": openat       *)
(* fails, "ok": the write succeeds, "wfail": the write fails) and to its   *)
(* directory entries; an entry has a name, the d_type readdir reports,     *)
(* the outcome of opening it as a directory and the directory it leads to. *)
(***************************************************************************)
ROOT == "R"
DirIds == {"R", "A", "A1", "A2", "B", "B1"}
UEVENT_PAYLOAD == <<"a", "d", "d", "\n">>

\* a walk without the test for a leading '.'
IsHidden_Never(de) == FALSE

\* if (de->d_name[0] == '.') continue;
IsHidden(de) == de.name[1] = "."

\* a walk that takes entries of every type as directories at every depth
SkippedByType_Never(de, lvl) == FALSE

\* a walk that applies the d_type test at every level, the root included
SkippedByType_AnyLevel(de, lvl) == de.d_type # "DT_DIR"

\* if (de->d_type != DT_DIR && lvl > 0) continue;
SkippedByType(de, lvl) == de.d_type # "DT_DIR" /\ lvl > 0

\* openat(dfd, de->d_name, O_RDONLY | O_DIRECTORY) and fdopendir both succeed
OpensAsDir(de) == de.opens = "ok"

\* do_coldboot recurses into the entry
Descends(de, lvl) == ~IsHidden(de) /\ ~SkippedByType(de, lvl) /\ OpensAsDir(de)

\* a loop that gives up on the directory at the first entry it cannot open
OnOpenFailure_Break == "break"

\* a do_coldboot that returns when the write to uevent fails
AfterWrite_ReturnOnFailure(result) == IF result = "wfail" THEN "return" ELSE "go_on"

\* what do_coldboot does after the uevent attempt: the results of openat
\* and write are not looked at, the readdir loop follows in every case
AfterWrite(result) == "go_on"

\* what the loop does after an entry that could not be opened: "continue"
OnOpenFailure == "continue"

\* what opening and writing the uevent file of directory d can give: "ok",
\* "absent" (openat fails), "wfail" (write fails); a flaky file is one whose
\* write succeeds at one time and fails at another
UeventOutcomes(d) ==
    IF sysfs.dirs[d].uevent = "flaky" THEN {"ok", "wfail"} ELSE {sysfs.dirs[d].uevent}

\* a directory entry exists while the device it stands for is plugged in
InDir(e) == plug[e.target] # "absent"

\* what the directory holds now
EntriesOf(d) == {e \in sysfs.dirs[d].entries : InDir(e)}

\* a do_coldboot call: todo are the entries the directory held at opendir,
\* which readdir will return; late are those that were not there yet, which
\* readdir may or may not return if they turn up while the stream is open
Frame(dir, lvl) ==
    [dir |-> dir, lvl |-> lvl, todo |-> EntriesOf(dir),
     late |-> sysfs.dirs[dir].entries \ EntriesOf(dir), uevented |-> FALSE]

Top == stack[Len(stack)]

ReplaceTop(f) == [stack EXCEPT ![Len(stack)] = f]

Pop == SubSeq(stack, 1, Len(stack) - 1)

Alive == pc \notin TerminalPcs

(***************************************************************************)
(* The inputs the model is checked on.                                     *)
(***************************************************************************)
RECURSIVE SeqsUpTo(_, _)
SeqsUpTo(S, n) ==
    IF n = 0 THEN {<<>>}
    ELSE LET shorter == SeqsUpTo(S, n - 1)
         IN  shorter \cup {Append(s, c) : s \in {t \in shorter : Len(t) = n - 1}, c \in S}

RunAlphabet == {"0", "1", "2"}

LongRuns ==
    { <<"2","1","4","7","4","8","3","6","4","7">>,
      <<"2","1","4","7","4","8","3","6","4","8">>,
      <<"0","0","0","0","0","0","0","0","0","1","2">>,
      <<"9","9","9","9","9","9","9","9","9","9","9","9","9","9","9","9","9","9","9","9">> }

Runs == SeqsUpTo(RunAlphabet, MaxRunLen) \cup LongRuns

Stems ==
    { <<>>, <<"s","d","a">>, <<"p">>,
      <<"m","m","c","b","l","k","0","p">>, <<"m","m","c","b","l","k">>,
      <<"n","v","m","e","0","n","1","p">>, <<"n","v","m","e","0","n">>,
      <<"n","v","m","e","m","m","c","b","l","k","0","p">>,
      <<"m","m","c","b","l","k","n","v","m","e">> }

SDA1 == <<"s","d","a","1">>
MMCBLK0P12 == <<"m","m","c","b","l","k","0","p","1","2">>
NVME0N1P3 == <<"n","v","m","e","0","n","1","p","3">>

Tokens == ({s \o r : s \in Stems, r \in Runs} \cup {NVME0N1P3}) \ {<<>>}

Pres == {<<>>, <<"q", " ">>, <<"x">>}
Posts == {<<>>, <<"\n">>, <<" ", "q", "\n">>, <<" ">> \o SDCARD_EQ \o SDA1}

\* /proc/cmdline contents: <<>> when the file cannot be read, <<text>> otherwise
TokenLines == {<<SDCARD_EQ \o t>> : t \in Tokens}
FramedLines ==
    {<<pre \o SDCARD_EQ \o t \o post>> :
        pre \in Pres, t \in {<<>>, SDA1, MMCBLK0P12}, post \in Posts}
PlainLines ==
    {<<pre \o post>> : pre \in Pres, post \in {<<>>, <<"\n">>, <<" ", "q", "\n">>}}
    \cup {<<<<"S","D","C","A","R","D">>>>, <<<<"S","D","C","A","R","=">> \o SDA1>>}
Cmdlines == {<<>>} \cup TokenLines \cup FramedLines \cup PlainLines
FewCmdlines == {<<>>, <<<<"q">>>>, <<SDCARD_EQ \o SDA1>>, <<SDCARD_EQ \o MMCBLK0P12 \o <<"\n">>>>}

DigitChar(k) == CASE k = 1 -> "1" [] k = 2 -> "2" [] k = 3 -> "3" [] k = 4 -> "4" [] OTHER -> "9"

\* the fstab record at position k with the given fs_mgr flags
Rec(k, f) ==
    [blk_device |-> <<"/", "d", DigitChar(k)>>,
     label |-> <<"l", DigitChar(k)>>,
     partnum |-> IF k % 2 = 1 THEN k ELSE -1,
     fs_type |-> IF k % 2 = 1 THEN << <<"v","f","a","t">> >> ELSE <<>>,
     fs_options |-> IF k % 2 = 0 THEN << <<"r","o">> >> ELSE <<>>,
     voldmanaged |-> f.voldmanaged, encryptable |-> f.encryptable,
     noemulatedsd |-> f.noemulatedsd, nonremovable |-> f.nonremovable]

FlagCombos ==
    [voldmanaged : BOOLEAN, encryptable : BOOLEAN,
     noemulatedsd : BOOLEAN, nonremovable : BOOLEAN]

MixedCombos ==
    {f \in FlagCombos :
        \/ ~f.voldmanaged /\ f.encryptable /\ f.noemulatedsd /\ f.nonremovable
        \/ f.voldmanaged /\ ~f.encryptable /\ ~f.noemulatedsd /\ ~f.nonremovable
        \/ f.voldmanaged /\ f.encryptable /\ ~f.noemulatedsd /\ f.nonremovable
        \/ f.voldmanaged /\ ~f.encryptable /\ f.noemulatedsd /\ ~f.nonremovable}

\* fstab contents: <<>> when it cannot be loaded, <<recs>> otherwise
Fstabs ==
    {<<>>}
    \cup {<< <<Rec(1, f)>> >> : f \in FlagCombos}
    \cup {<< [k \in 1..Len(fs) |-> Rec(k, fs[k])] >> : fs \in SeqsUpTo(MixedCombos, MaxEntries)}

DefaultFstab ==
    << <<Rec(1, [voldmanaged |-> TRUE, encryptable |-> FALSE,
                 noemulatedsd |-> FALSE, nonremovable |-> FALSE])>> >>

DirOk == [d_type |-> "DT_DIR", opens |-> "ok"]
DirNoPerm == [d_type |-> "DT_DIR", opens |-> "openat_fail"]
DirFdFail == [d_type |-> "DT_DIR", opens |-> "fdopendir_fail"]
LnkOk == [d_type |-> "DT_LNK", opens |-> "ok"]
LnkFail == [d_type |-> "DT_LNK", opens |-> "openat_fail"]
RegFile == [d_type |-> "DT_REG", opens |-> "openat_fail"]

Entry(name, kind, target) ==
    [name |-> name, d_type |-> kind.d_type, opens |-> kind.opens, target |-> target]

Dir(uevent, entries) == [uevent |-> uevent, entries |-> entries]

\* /sys/block/{a -> A/{a1 -> A1/{a2 -> A2}}, b -> B/{b1 -> B1}, self -> /sys/block}
Tree(rootOpens, uR, ea, eb, self, uA, ea1, ea2) ==
    [rootOpens |-> rootOpens,
     dirs |-> [d \in DirIds |->
        CASE d = "R" -> Dir(uR, {ea, eb} \cup (IF self THEN {Entry(<<"s">>, LnkOk, "R")} ELSE {}))
          [] d = "A" -> Dir(uA, {ea1})
          [] d = "A1" -> Dir("ok", {ea2})
          [] d = "A2" -> Dir("ok", {})
          [] d = "B" -> Dir("ok", {Entry(<<"b", "1">>, DirOk, "B1")})
          [] d = "B1" -> Dir("ok", {})]]

Trees ==
    {Tree(TRUE, uR, Entry(<<"a">>, ka, "A"), eb, FALSE, uA, ea1, Entry(<<"a", "2">>, ka2, "A2")) :
        uR \in {"absent", "ok"},
        ka \in {DirOk, LnkOk, LnkFail, DirFdFail},
        eb \in {Entry(<<"b">>, LnkOk, "B"), Entry(<<".", "b">>, DirOk, "B"),
                Entry(<<"b">>, RegFile, "B")},
        uA \in {"ok", "absent", "wfail", "flaky"},
        ea1 \in {Entry(<<"a", "1">>, DirOk, "A1"), Entry(<<"a", "1">>, LnkOk, "A1"),
                 Entry(<<"a", "1">>, DirNoPerm, "A1"), Entry(<<".", "a">>, DirOk, "A1")},
        ka2 \in {DirOk, LnkOk}}

\* trees in which /sys/block holds a link back to /sys/block itself
SelfTrees ==
    {Tree(TRUE, uR, Entry(<<"a">>, ka, "A"), Entry(<<"b">>, LnkOk, "B"), TRUE, "ok",
          Entry(<<"a", "1">>, ka1, "A1"), Entry(<<"a", "2">>, DirOk, "A2")) :
        uR \in {"absent", "ok"}, ka \in {DirOk, LnkOk}, ka1 \in {DirOk, LnkOk}}

SmallTree ==
    Tree(TRUE, "absent", Entry(<<"a">>, LnkOk, "A"), Entry(<<".", "b">>, DirOk, "B"),
         FALSE, "ok", Entry(<<".", "a">>, DirOk, "A1"), Entry(<<"a", "2">>, DirOk, "A2"))

NoTree == [SmallTree EXCEPT !.rootOpens = FALSE]

\* two disks, each of which may be plugged in while vold starts
HotTree ==
    Tree(TRUE, "absent", Entry(<<"a">>, LnkOk, "A"), Entry(<<"b">>, LnkOk, "B"),
         FALSE, "ok", Entry(<<".", "a">>, DirOk, "A1"), Entry(<<"a", "2">>, DirOk, "A2"))

HotDevs == {"A", "B"}

AllAtBoot == [d \in DirIds |-> "boot"]

\* some of the disks are not there yet when vold starts
PlugStates ==
    {[d \in DirIds |-> IF d \in S THEN "absent" ELSE "boot"] :
        S \in {T \in SUBSET HotDevs : T # {} /\ Cardinality(T) <= MaxHotplug}}

(***************************************************************************)
(* Initial states: the process before vold_main runs, in an environment    *)
(* drawn from the families above.  has_adoptable is declared without an    *)
(* initialiser, so it starts with whatever the stack holds.                *)
(***************************************************************************)
DefaultCmdline == <<SDCARD_EQ \o SDA1>>

InitEnv ==
    \/ /\ argv \in SUBSET RequiredContexts
       /\ fstabFile = DefaultFstab /\ procCmdline = DefaultCmdline
       /\ debugProp = FALSE /\ sysfs = SmallTree /\ hotplugs = 0 /\ plug = AllAtBoot
    \/ /\ argv = RequiredContexts
       /\ fstabFile = DefaultFstab /\ procCmdline \in Cmdlines
       /\ debugProp = FALSE /\ sysfs = SmallTree /\ hotplugs = 0 /\ plug = AllAtBoot
    \/ /\ argv = RequiredContexts
       /\ fstabFile \in Fstabs /\ procCmdline \in FewCmdlines
       /\ debugProp \in BOOLEAN /\ sysfs = SmallTree /\ hotplugs = 0
       /\ plug = AllAtBoot
    \/ /\ argv = RequiredContexts
       /\ fstabFile = DefaultFstab /\ procCmdline = DefaultCmdline
       /\ debugProp = FALSE /\ sysfs \in Trees \cup SelfTrees \cup {NoTree}
       /\ hotplugs = 0 /\ plug = AllAtBoot
    \/ /\ argv = RequiredContexts
       /\ fstabFile = DefaultFstab /\ procCmdline = DefaultCmdline
       /\ debugProp = FALSE /\ sysfs \in {SmallTree, HotTree}
       /\ plug \in PlugStates
       /\ hotplugs = Cardinality({d \in DirIds : plug[d] = "absent"})

Init ==
    /\ InitEnv
    /\ pc = "parse_args"
    /\ contexts = {}
    /\ fstab = <<>>
    /\ i = 0
    /\ has_adoptable \in BOOLEAN
    /\ configResult = "pending"
    /\ sdcard = <<>>
    /\ isDisk = FALSE
    /\ diskSources = <<>>
    /\ nmStarted = FALSE
    /\ sock = <<>>
    /\ seen = [d \in DirIds |-> 0]
    /\ matched = {}
    /\ stack = <<>>
    /\ visitLog = <<>>
    /\ clStarted = FALSE
    /\ cclStarted = FALSE
    /\ hasAdoptableProp = "unset"

envVars == <<argv, fstabFile, procCmdline, debugProp, sysfs>>
configVars == <<fstab, i, has_adoptable, configResult, sdcard, isDisk, diskSources>>
netlinkVars == <<nmStarted, sock, seen, matched, hotplugs, plug>>
walkVars == <<stack, visitLog>>
listenerVars == <<clStarted, cclStarted, hasAdoptableProp>>

(***************************************************************************)
(* vold_main up to process_config.                                         *)
(***************************************************************************)
\* parse_args: store the options given, CHECK that all four are there
ParseArgs ==
    /\ pc = "parse_args"
    /\ contexts' = argv
    /\ pc' = IF argv = RequiredContexts THEN StepAfter("parse_args") ELSE "abort_check"
    /\ UNCHANGED <<envVars, configVars, netlinkVars, walkVars, listenerVars>>

\* VolumeManager::Instance() and NetlinkManager::Instance(); exit(1) on NULL
Instance ==
    /\ pc = "instance"
    /\ \E ok \in BOOLEAN : pc' = IF ok THEN StepAfter("instance") ELSE "exit_instance"
    /\ UNCHANGED <<contexts, envVars, configVars, netlinkVars, walkVars, listenerVars>>

\* vm->start(); exit(1) on failure
VmStart ==
    /\ pc = "vm_start"
    /\ \E ok \in BOOLEAN : pc' = IF ok THEN StepAfter("vm_start") ELSE "exit_vm_start"
    /\ UNCHANGED <<contexts, envVars, configVars, netlinkVars, walkVars, listenerVars>>

(***************************************************************************)
(* process_config.                                                         *)
(***************************************************************************)
\* fs_mgr_read_fstab; return -1 when it fails, else clear *has_adoptable
ReadFstab ==
    /\ pc = "process_config"
    /\ fstab' = fstabFile
    /\ IF fstabFile = <<>>
       THEN /\ pc' = IF OnFstabFailure = "return"
                     THEN StepAfter("process_config") ELSE "cmdline"
            /\ configResult' = "error"
            /\ UNCHANGED <<i, has_adoptable>>
       ELSE /\ pc' = "fstab_loop"
            /\ has_adoptable' = FALSE
            /\ i' = 0
            /\ UNCHANGED configResult
    /\ UNCHANGED <<contexts, envVars, sdcard, isDisk, diskSources, netlinkVars,
                   walkVars, listenerVars>>

\* one iteration of the loop over fstab->recs, or the end of the loop
FstabLoop ==
    /\ pc = "fstab_loop"
    /\ IF i < Len(fstab[1])
       THEN LET rec == fstab[1][i + 1]
            IN  /\ diskSources' =
                     IF ProducesRule(rec)
                     THEN Append(diskSources, FstabDiskSource(rec, debugProp))
                     ELSE diskSources
                /\ has_adoptable' =
                     IF ProducesRule(rec) /\ rec.encryptable THEN TRUE ELSE has_adoptable
                /\ i' = i + 1
                /\ UNCHANGED pc
       ELSE /\ pc' = "cmdline"
            /\ UNCHANGED <<diskSources, has_adoptable, i>>
    /\ UNCHANGED <<contexts, envVars, fstab, configResult, sdcard, isDisk, netlinkVars,
                   walkVars, listenerVars>>

\* the scan of /proc/cmdline for SDCARD=, up to return 0
ScanCmdline ==
    /\ pc = "cmdline"
    /\ LET token == IF procCmdline = <<>> THEN <<>> ELSE ExtractToken(procCmdline[1])
       IN  /\ sdcard' = token
           /\ IF token = <<>>
              THEN /\ pc' = StepAfter("process_config")
                   /\ configResult' = "ok"
                   /\ UNCHANGED <<isDisk, diskSources, has_adoptable>>
              ELSE \E disk \in BOOLEAN :
                     LET n == Normalize(token, disk)
                     IN  /\ isDisk' = disk
                         /\ IF n.thrown
                            THEN /\ pc' = "abort_stoi"
                                 /\ UNCHANGED <<diskSources, has_adoptable, configResult>>
                            ELSE /\ diskSources' =
                                      Append(diskSources, SdcardDiskSource(n.name, n.partnum))
                                 /\ has_adoptable' = TRUE
                                 /\ pc' = StepAfter("process_config")
                                 /\ configResult' = "ok"
    /\ UNCHANGED <<contexts, envVars, fstab, i, netlinkVars, walkVars, listenerVars>>

(***************************************************************************)
(* vold_main after process_config.                                         *)
(***************************************************************************)
\* nm->start(); exit(1) on failure.  On success the listener thread runs.
NmStart ==
    /\ pc = "nm_start"
    /\ \E ok \in BOOLEAN :
         IF ok THEN pc' = StepAfter("nm_start") /\ nmStarted' = TRUE
         ELSE pc' = "exit_nm_start" /\ UNCHANGED nmStarted
    /\ UNCHANGED <<contexts, envVars, configVars, sock, seen, matched, hotplugs,
                   plug, walkVars, listenerVars>>

\* coldboot("/sys/block"): opendir; nothing is done when it fails
Coldboot ==
    /\ pc = "coldboot"
    /\ IF sysfs.rootOpens
       THEN pc' = "walk" /\ stack' = <<Frame(ROOT, 0)>>
       ELSE pc' = StepAfter("coldboot") /\ UNCHANGED stack
    /\ UNCHANGED <<contexts, envVars, configVars, netlinkVars, visitLog, listenerVars>>

\* do_coldboot: openat(dfd, "uevent", O_WRONLY) and, if it opened, write "add\n".
\* A write that succeeds makes the kernel send an add uevent for the device.
WriteUevent ==
    /\ pc = "walk"
    /\ ~Top.uevented
    /\ \E u \in UeventOutcomes(Top.dir) :
           /\ visitLog' = Append(visitLog,
                 [op |-> "uevent", dir |-> Top.dir, lvl |-> Top.lvl, result |-> u,
                  data |-> IF u = "absent" THEN <<>> ELSE UEVENT_PAYLOAD])
           /\ sock' = IF u = "ok" /\ nmStarted THEN Append(sock, Top.dir) ELSE sock
           /\ stack' = ReplaceTop(
                 IF AfterWrite(u) = "go_on"
                 THEN [Top EXCEPT !.uevented = TRUE]
                 ELSE [Top EXCEPT !.uevented = TRUE, !.todo = {}, !.late = {}])
    /\ UNCHANGED <<pc, contexts, envVars, configVars, nmStarted, seen, matched, hotplugs,
                   plug, listenerVars>>

\* do_coldboot: one readdir and the body of the while loop for that entry
ReadEntry ==
    /\ pc = "walk"
    /\ Top.uevented
    /\ \E de \in Top.todo \cup {e \in Top.late : InDir(e)} :
         LET rest == [Top EXCEPT !.todo = Top.todo \ {de}, !.late = Top.late \ {de}]
         IN  IF Descends(de, Top.lvl)
             THEN /\ stack' = Append(ReplaceTop(rest), Frame(de.target, Top.lvl + 1))
                  /\ visitLog' = Append(visitLog,
                        [op |-> "enter", dir |-> de.target, lvl |-> Top.lvl + 1,
                         result |-> Top.dir, data |-> de.name])
             ELSE /\ stack' =
                       IF ~OpensAsDir(de) /\ ~IsHidden(de) /\ ~SkippedByType(de, Top.lvl)
                          /\ OnOpenFailure # "continue"
                       THEN ReplaceTop([rest EXCEPT !.todo = {}, !.late = {}])
                       ELSE ReplaceTop(rest)
                  /\ UNCHANGED visitLog
    /\ UNCHANGED <<pc, contexts, envVars, configVars, netlinkVars, listenerVars>>

\* do_coldboot: readdir returns NULL, the function returns and the caller
\* closes the directory; coldboot itself returns to vold_main
ReturnFromDir ==
    /\ pc = "walk"
    /\ Top.uevented
    /\ Top.todo = {}
    /\ stack' = Pop
    /\ pc' = IF Len(stack) = 1 THEN StepAfter("coldboot") ELSE pc
    /\ UNCHANGED <<contexts, envVars, configVars, netlinkVars, visitLog, listenerVars>>

\* cl->startListener(); exit(1) on failure
ClStart ==
    /\ pc = "cl_start"
    /\ \E ok \in BOOLEAN :
         IF ok THEN pc' = StepAfter("cl_start") /\ clStarted' = TRUE
         ELSE pc' = "exit_cl_start" /\ UNCHANGED clStarted
    /\ UNCHANGED <<contexts, envVars, configVars, netlinkVars, walkVars, cclStarted,
                   hasAdoptableProp>>

\* ccl->startListener(); exit(1) on failure
CclStart ==
    /\ pc = "ccl_start"
    /\ \E ok \in BOOLEAN :
         IF ok THEN pc' = StepAfter("ccl_start") /\ cclStarted' = TRUE
         ELSE pc' = "exit_ccl_start" /\ UNCHANGED cclStarted
    /\ UNCHANGED <<contexts, envVars, configVars, netlinkVars, walkVars, clStarted,
                   hasAdoptableProp>>

\* property_set("vold.has_adoptable", has_adoptable ? "1" : "0"), then sleep for ever
PropertySet ==
    /\ pc = "property_set"
    /\ hasAdoptableProp' = IF has_adoptable THEN "1" ELSE "0"
    /\ pc' = StepAfter("property_set")
    /\ UNCHANGED <<contexts, envVars, configVars, netlinkVars, walkVars, clStarted,
                   cclStarted>>

(***************************************************************************)
(* The kernel and the netlink listener thread.                             *)
(***************************************************************************)
\* a disk is plugged in: its directory appears under /sys/block and the
\* kernel announces it with an add uevent of its own; nobody hears that
\* before NetlinkManager has opened its socket
Hotplug ==
    /\ hotplugs > 0
    /\ Alive
    /\ hotplugs' = hotplugs - 1
    /\ \E d \in {h \in HotDevs : plug[h] = "absent"} :
          /\ plug' = [plug EXCEPT ![d] = IF nmStarted THEN "late" ELSE "early"]
          /\ sock' = IF nmStarted THEN Append(sock, d) ELSE sock
    /\ UNCHANGED <<pc, contexts, envVars, configVars, nmStarted, seen, matched,
                   walkVars, listenerVars>>

\* the listener thread takes one uevent off the socket and matches it
\* against the disk sources registered so far
HandleEvent ==
    /\ nmStarted
    /\ Alive
    /\ sock # <<>>
    /\ sock' = Tail(sock)
    /\ seen' = [seen EXCEPT ![Head(sock)] = @ + 1]
    /\ matched' = matched \cup {diskSources}
    /\ UNCHANGED <<pc, contexts, envVars, configVars, nmStarted, hotplugs, plug,
                   walkVars, listenerVars>>

Next ==
    \/ ParseArgs \/ Instance \/ VmStart
    \/ ReadFstab \/ FstabLoop \/ ScanCmdline
    \/ NmStart \/ Coldboot \/ WriteUevent \/ ReadEntry \/ ReturnFromDir
    \/ ClStart \/ CclStart \/ PropertySet
    \/ Hotplug \/ HandleEvent

Spec == Init /\ [][Next]_vars

(***************************************************************************)
(* Properties.                                                             *)
(***************************************************************************)
ConfigPcs == {"process_config", "fstab_loop", "cmdline"}
AfterConfigPcs ==
    {"nm_start", "coldboot", "walk", "cl_start", "ccl_start", "property_set", "sleep",
     "exit_nm_start", "exit_cl_start", "exit_ccl_start"}
AfterColdbootPcs ==
    {"cl_start", "ccl_start", "property_set", "sleep", "exit_cl_start", "exit_ccl_start"}

ColdbootCalled == pc = "walk" \/ stack # <<>> \/ visitLog # <<>>

\* C1: every addDiskSource call of process_config is made before
\* NetlinkManager::start, and coldboot runs only after NetlinkManager::start
\* has succeeded: while the listener thread runs process_config has returned
\* and no rule is added, and every uevent the listener handled was matched
\* against the rule list as it finally stands.
C1_RulesCompleteBeforeListener ==
    /\ [](nmStarted => configResult # "pending" /\ pc \notin ConfigPcs)
    /\ [](ColdbootCalled => nmStarted)
    /\ [](\A m \in matched : m = diskSources)
    /\ [][nmStarted \/ nmStarted' => diskSources' = diskSources]_vars

C1_Witness ==
    /\ seen["A"] >= 2
    /\ Len(diskSources) = 2
    /\ matched = {diskSources}
    /\ pc \in AfterColdbootPcs

\* C2: when the fstab cannot be loaded process_config registers no rule,
\* whatever /proc/cmdline holds, reports the failure and returns to
\* vold_main, which goes on to NetlinkManager start, coldboot and the
\* command listener: from then on only a listener failure ends the process.
C2_FstabFailureNotFatal ==
    fstabFile = <<>> =>
        /\ diskSources = <<>>
        /\ sdcard = <<>>
        /\ pc \notin {"fstab_loop", "cmdline", "abort_stoi"}
        /\ configResult \in {"pending", "error"}
        /\ configResult = "error" => pc \in AfterConfigPcs

C2_Witness ==
    /\ fstabFile = <<>>
    /\ procCmdline = <<SDCARD_EQ \o SDA1>>
    /\ configResult = "error"
    /\ nmStarted
    /\ visitLog # <<>>
    /\ clStarted

\* C3: when the fstab cannot be loaded, the value published as
\* vold.has_adoptable is "0".
C3_FailurePublishesFalse ==
    fstabFile = <<>> /\ hasAdoptableProp # "unset" => hasAdoptableProp = "0"

(***************************************************************************)
(* The reference normalisation of the SDCARD= token, stated on the token   *)
(* itself: the maximal trailing digit run, the name without it, and the    *)
(* run's value written in decimal (a value need not fit a machine word).   *)
(***************************************************************************)
Contains(s, pat) ==
    \E p \in 1..(Len(s) - Len(pat) + 1) : SubSeq(s, p, p + Len(pat) - 1) = pat

\* length of the maximal run of decimal digits that ends the token
RefRunLen(token) ==
    CHOOSE k \in 0..Len(token) :
        /\ \A j \in (Len(token) - k + 1)..Len(token) : isdigit(token[j])
        /\ k < Len(token) => ~isdigit(token[Len(token) - k])

RefRun(token) == SubSeq(token, Len(token) - RefRunLen(token) + 1, Len(token))

RefHasPartition(token, disk) == ~disk /\ RefRunLen(token) > 0

RefName(token, disk) ==
    IF ~RefHasPartition(token, disk) THEN token
    ELSE LET base == SubSeq(token, 1, Len(token) - RefRunLen(token))
         IN  IF Contains(base, MMCBLK) \/ Contains(base, NVME)
             THEN SubSeq(base, 1, Len(base) - 1)
             ELSE base

\* a digit run without its leading zeros: the decimal numeral of its value
RECURSIVE Numeral(_)
Numeral(run) ==
    IF Len(run) > 1 /\ Head(run) = "0" THEN Numeral(Tail(run)) ELSE run

Digits10 == <<"0", "1", "2", "3", "4", "5", "6", "7", "8", "9">>

\* the decimal numeral of a non-negative integer
RECURSIVE ToNumeral(_)
ToNumeral(n) ==
    IF n < 10 THEN <<Digits10[n + 1]>>
    ELSE Append(ToNumeral(n \div 10), Digits10[(n % 10) + 1])

\* partnum is the partition number the reference gives for the token
RefPartnumIs(partnum, token, disk) ==
    IF RefHasPartition(token, disk)
    THEN partnum >= 0 /\ ToNumeral(partnum) = Numeral(RefRun(token))
    ELSE partnum = -1

ScanDone == sdcard # <<>>
SdcardRuleAdded == ScanDone /\ pc # "abort_stoi"
LastRule == diskSources[Len(diskSources)]

\* C4: for every non-empty SDCARD= token the scan yields the reference
\* result: the rule it registers carries the reference name and the
\* reference partition number (the value of the trailing digit run, or -1
\* for a whole disk or a token without a trailing digit run).
C4_NormalizationEqualsReference ==
    ScanDone =>
        /\ pc # "abort_stoi"
        /\ Len(diskSources) >= 1
        /\ LastRule.nickname = RefName(sdcard, isDisk)
        /\ LastRule.sysPattern = DEVICES_PREFIX \o RefName(sdcard, isDisk)
        /\ RefPartnumIs(LastRule.partnum, sdcard, isDisk)

\* the same, for the tokens on which std::stoi returns
NormalizationEqualsReferenceWhenParsed ==
    SdcardRuleAdded =>
        /\ Len(diskSources) >= 1
        /\ LastRule.nickname = RefName(sdcard, isDisk)
        /\ LastRule.sysPattern = DEVICES_PREFIX \o RefName(sdcard, isDisk)
        /\ RefPartnumIs(LastRule.partnum, sdcard, isDisk)

ExamplesNormalized ==
    /\ Normalize(MMCBLK0P12, FALSE) =
          [thrown |-> FALSE, name |-> <<"m","m","c","b","l","k","0">>, partnum |-> 12]
    /\ Normalize(NVME0N1P3, FALSE) =
          [thrown |-> FALSE, name |-> <<"n","v","m","e","0","n","1">>, partnum |-> 3]
    /\ Normalize(SDA1, FALSE) =
          [thrown |-> FALSE, name |-> <<"s","d","a">>, partnum |-> 1]
    /\ Normalize(<<"s","d","a">>, TRUE) =
          [thrown |-> FALSE, name |-> <<"s","d","a">>, partnum |-> -1]

(***************************************************************************)
(* The rules expected from the fstab, stated on the fstab itself.          *)
(***************************************************************************)
IsPrefix(s, t) == Len(s) <= Len(t) /\ SubSeq(t, 1, Len(s)) = s

\* the fstab records the loop has dealt with so far
Processed ==
    IF fstab = <<>> THEN <<>>
    ELSE IF pc = "fstab_loop" THEN SubSeq(fstab[1], 1, i)
    ELSE fstab[1]

IsManaged(rec) == rec.voldmanaged

\* what identifies a rule: everything but its flags
Identity(r) == <<r.sysPattern, r.nickname, r.partnum, r.fstype, r.mntopts>>

IdentityOfRec(rec) ==
    <<rec.blk_device, rec.label, rec.partnum,
      IF rec.fs_type = <<>> THEN <<>> ELSE rec.fs_type[1],
      IF rec.fs_options = <<>> THEN <<>> ELSE rec.fs_options[1]>>

ExpectedIdentities ==
    LET managed == SelectSeq(Processed, IsManaged)
    IN  [k \in 1..Len(managed) |-> IdentityOfRec(managed[k])]

Identities(rules) == [k \in 1..Len(rules) |-> Identity(rules[k])]

IsSdcardRule(r) ==
    /\ r.flags = {kAdoptable}
    /\ r.fstype = AUTO
    /\ r.mntopts = <<>>
    /\ r.sysPattern = DEVICES_PREFIX \o r.nickname

\* C5: after a successful fstab load the registered rules are one rule per
\* voldmanaged fstab record, in fstab order, followed by at most one SDCARD=
\* rule as the last element; no rule stands for a record that is not
\* voldmanaged; and the list only ever grows at its end.
C5_RulesAreManagedEntriesInOrder ==
    /\ [](fstab # <<>> =>
            \/ Identities(diskSources) = ExpectedIdentities
            \/ /\ pc \in AfterConfigPcs
               /\ SdcardRuleAdded
               /\ Len(diskSources) = Len(ExpectedIdentities) + 1
               /\ Identities(SubSeq(diskSources, 1, Len(diskSources) - 1))
                    = ExpectedIdentities
               /\ IsSdcardRule(LastRule))
    /\ [](fstab # <<>> /\ pc \in AfterConfigPcs /\ ~ScanDone =>
            Identities(diskSources) = ExpectedIdentities)
    /\ [][IsPrefix(diskSources, diskSources')]_vars

C5_Witness ==
    /\ pc \in AfterConfigPcs
    /\ fstab # <<>>
    /\ Len(fstab[1]) = 2
    /\ ~fstab[1][1].voldmanaged
    /\ fstab[1][2].voldmanaged
    /\ Len(diskSources) = 2
    /\ diskSources[1].sysPattern = fstab[1][2].blk_device
    /\ IsSdcardRule(diskSources[2])

\* the rule built for the k-th fstab record
RuleOfRecord(k) == diskSources[Cardinality({j \in 1..k : fstab[1][j].voldmanaged})]

\* C6: the flags of the rule built for a voldmanaged fstab record are those
\* the record determines: kAdoptable iff encryptable (and has_adoptable is
\* then true), kDefaultPrimary iff noemulatedsd or the debug override,
\* kNonRemovable iff nonremovable, and nothing else.
C6_FlagsDeterminedByEntry ==
    \A k \in 1..Len(Processed) :
        fstab[1][k].voldmanaged =>
            LET rec == fstab[1][k]
                flags == RuleOfRecord(k).flags
            IN  /\ kAdoptable \in flags <=> rec.encryptable
                /\ rec.encryptable => has_adoptable
                /\ kDefaultPrimary \in flags <=> (rec.noemulatedsd \/ debugProp)
                /\ kNonRemovable \in flags <=> rec.nonremovable
                /\ flags \subseteq {kAdoptable, kDefaultPrimary, kNonRemovable}

C6_Witness ==
    /\ pc = "cmdline"
    /\ fstab # <<>>
    /\ debugProp
    /\ Len(fstab[1]) = 1
    /\ fstab[1][1].voldmanaged /\ fstab[1][1].encryptable
    /\ ~fstab[1][1].noemulatedsd /\ ~fstab[1][1].nonremovable
    /\ diskSources[1].flags = {kAdoptable, kDefaultPrimary}
    /\ has_adoptable

(***************************************************************************)
(* The command line, stated on the text itself.                            *)
(***************************************************************************)
\* 1-based positions at which "SDCARD=" occurs in the line
Occurrences(line) ==
    {p \in 1..(Len(line) - 6) : SubSeq(line, p, p + 6) = SDCARD_EQ}

\* the line cannot be read, holds no "SDCARD=", or nothing stands between
\* its first "SDCARD=" and the next space, newline or the end of the line
NoSdcardText ==
    \/ procCmdline = <<>>
    \/ LET line == procCmdline[1]
       IN  \/ Occurrences(line) = {}
           \/ LET first == CHOOSE p \in Occurrences(line) :
                              \A q \in Occurrences(line) : p <= q
              IN  first + 7 > Len(line) \/ line[first + 7] \in {" ", "\n"}

\* C7: without an SDCARD= token, or with an empty one, the command-line
\* scan adds no rule, leaves has_adoptable as the fstab pass left it,
\* leaves the registered rules as they are, and returns normally.
C7_NoTokenNoRule ==
    [][pc = "cmdline" /\ NoSdcardText =>
         /\ diskSources' = diskSources
         /\ has_adoptable' = has_adoptable
         /\ pc' = "nm_start"]_vars

C7_Witness ==
    /\ pc = "nm_start"
    /\ configResult = "ok"
    /\ NoSdcardText
    /\ procCmdline # <<>>
    /\ Occurrences(procCmdline[1]) # {}
    /\ Len(procCmdline[1]) > 7
    /\ has_adoptable = FALSE
    /\ Len(diskSources) = 1

(***************************************************************************)
(* The coldboot walk, stated on the tree itself.                           *)
(***************************************************************************)
\* the directories n levels below /sys/block that the recursion policy
\* reaches: every entry of the root that opens as a directory, below the
\* root only entries typed DT_DIR, never an entry whose name starts with '.'
RECURSIVE ReachAtLevel(_)
ReachAtLevel(n) ==
    IF n = 0 THEN {ROOT}
    ELSE {e.target : e \in
            {x \in UNION {EntriesOf(d) : d \in ReachAtLevel(n - 1)} :
                /\ x.name[1] # "."
                /\ x.opens = "ok"
                /\ n = 1 \/ x.d_type = "DT_DIR"}}

Reachable ==
    IF ~sysfs.rootOpens THEN {}
    ELSE UNION {ReachAtLevel(n) : n \in 0..Cardinality(DirIds)}

LogIndex == 1..Len(visitLog)
Attempts == {k \in LogIndex : visitLog[k].op = "uevent"}
Enters == {k \in LogIndex : visitLog[k].op = "enter"}
Attempted == {visitLog[k].dir : k \in Attempts}

WalkDone == pc \in AfterColdbootPcs

\* no disk was plugged in while the listener and the walk were running
TreeStable == \A d \in DirIds : plug[d] # "late"

\* the walk went from directory d, opened at level lvl, into its entry e
Entered(d, lvl, e) ==
    \E k \in Enters :
        /\ visitLog[k].result = d
        /\ visitLog[k].lvl = lvl + 1
        /\ visitLog[k].data = e.name
        /\ visitLog[k].dir = e.target

\* the entry a step of the walk went through
EntryOf(k) ==
    CHOOSE e \in sysfs.dirs[visitLog[k].result].entries : e.name = visitLog[k].data

\* C8: coldboot attempts the uevent write, of the 4 bytes "add\n", in the
\* root directory and in every directory the recursion policy reaches, and
\* in no other; it never goes into an entry whose name starts with '.';
\* and a directory's uevent write is attempted before any of its children
\* is visited.
C8_WritesExactlyReachable ==
    /\ Attempted \subseteq Reachable
    /\ WalkDone /\ TreeStable => Attempted = Reachable
    /\ \A k \in Attempts :
          visitLog[k].result # "absent" =>
             visitLog[k].data = <<"a", "d", "d", "\n">> /\ Len(visitLog[k].data) = 4
    /\ \A k \in Enters :
          /\ visitLog[k].data[1] # "."
          /\ \E j \in Attempts : j < k /\ visitLog[j].dir = visitLog[k].result

C8_Witness ==
    /\ WalkDone
    /\ Attempted = {"R", "A", "A1", "A2"}
    /\ \E e \in sysfs.dirs["R"].entries : e.name[1] = "." /\ e.opens = "ok"
    /\ sysfs.dirs["A"].uevent = "ok"

\* the directories beneath a directory, itself included
RECURSIVE Beneath(_, _)
Beneath(d, n) ==
    IF n = 0 THEN {d}
    ELSE {d} \cup UNION {Beneath(e.target, n - 1) : e \in sysfs.dirs[d].entries}

\* C9: an entry of the root directory whose d_type is not DT_DIR is still
\* descended into; an entry of that kind in a directory at depth 1 or
\* deeper is skipped with everything beneath it; entries typed DT_DIR are
\* descended into at every depth.  (In the trees checked a directory other
\* than the root is the target of one entry only, so what lies beneath a
\* skipped entry of such a directory can be reached no other way.)
C9_DepthPolicy ==
    /\ \A k \in Enters : visitLog[k].lvl >= 2 => EntryOf(k).d_type = "DT_DIR"
    /\ WalkDone /\ TreeStable /\ sysfs.rootOpens =>
          /\ \A e \in EntriesOf(ROOT) :
                e.d_type # "DT_DIR" /\ e.name[1] # "." /\ e.opens = "ok"
                    => Entered(ROOT, 0, e)
          /\ \A k \in Attempts : \A e \in EntriesOf(visitLog[k].dir) :
                /\ visitLog[k].lvl >= 1 /\ e.d_type # "DT_DIR" =>
                      /\ ~Entered(visitLog[k].dir, visitLog[k].lvl, e)
                      /\ visitLog[k].dir # ROOT =>
                            Beneath(e.target, Cardinality(DirIds)) \cap Attempted = {}
                /\ e.d_type = "DT_DIR" /\ e.name[1] # "." /\ e.opens = "ok" =>
                      Entered(visitLog[k].dir, visitLog[k].lvl, e)

C9_Witness ==
    /\ WalkDone
    /\ \E e \in sysfs.dirs[ROOT].entries :
          e.d_type = "DT_LNK" /\ e.target = "A" /\ Entered(ROOT, 0, e)
    /\ \E e \in sysfs.dirs["A"].entries :
          e.d_type = "DT_LNK" /\ e.opens = "ok" /\ e.name[1] # "."
    /\ "A" \in Attempted
    /\ "A1" \notin Attempted
    /\ "B1" \in Attempted

\* C10: failures of the walk are local.  If the root cannot be opened the
\* walk does nothing; an entry that cannot be opened as a directory costs
\* only its own subtree, every other entry of the directory that qualifies
\* is still gone into; a uevent entry that cannot be opened or written does
\* not stop the descent into the directory's children; and no step of the
\* walk ends the process: vold_main goes on to start the command listener.
C10_WalkFailuresAreLocal ==
    /\ [](~sysfs.rootOpens => visitLog = <<>> /\ stack = <<>>)
    /\ [](WalkDone /\ TreeStable =>
            \A k \in Attempts : \A e \in EntriesOf(visitLog[k].dir) :
                IF e.opens # "ok"
                THEN ~Entered(visitLog[k].dir, visitLog[k].lvl, e)
                ELSE e.name[1] # "." /\ (visitLog[k].lvl = 0 \/ e.d_type = "DT_DIR")
                        => Entered(visitLog[k].dir, visitLog[k].lvl, e))
    /\ [][(pc \in {"coldboot", "walk"}) => (pc' \in {"coldboot", "walk", "cl_start"})]_vars

C10_Witness ==
    /\ WalkDone
    /\ clStarted
    /\ sysfs.dirs[ROOT].uevent = "absent"
    /\ \E e \in sysfs.dirs[ROOT].entries :
          e.target = "A" /\ e.opens = "fdopendir_fail" /\ e.name[1] # "."
    /\ Attempted = {"R", "B", "B1"}

(***************************************************************************)
(* The add events the listener sees.                                       *)
(***************************************************************************)
\* the disks: what the entries of /sys/block stand for
TopDevices == {e.target : e \in sysfs.dirs[ROOT].entries} \ {ROOT}

\* uevent writes of the walk in directory d that succeeded
OkWrites(d) ==
    Cardinality({k \in Attempts : visitLog[k].dir = d /\ visitLog[k].result = "ok"})

\* add events for d waiting on the socket
InSock(d) == Cardinality({k \in 1..Len(sock) : sock[k] = d})

\* the walk is over and the listener has handled everything sent to it
Quiet == WalkDone /\ sock = <<>>

\* /sys/block holds a link to itself
SelfLinked == \E e \in sysfs.dirs[ROOT].entries : e.target = ROOT

\* C11 as stated: each disk that is there when the walk comes by, and that
\* the walk announces with one successful uevent write, is seen by the
\* listener as exactly one add event, also when the disk was plugged in
\* between nm->start() and the walk.
C11_ExactlyOneAdd ==
    Quiet => \A d \in TopDevices : OkWrites(d) = 1 => seen[d] = 1

\* What the code does give: for each device the add events handled plus
\* those still queued are the successful uevent writes of the walk, plus
\* one (the kernel's own add) when the disk was plugged in after
\* nm->start().  A disk that was there when nm->start() ran, and that the
\* walk reaches with a successful write, is seen exactly once when all is
\* quiet (in a tree in which /sys/block does not link to itself); a disk
\* plugged in between nm->start() and the walk is seen twice.
AddsAreWritesPlusHotplug ==
    /\ \A d \in DirIds :
          seen[d] + InSock(d) = OkWrites(d) + (IF plug[d] = "late" THEN 1 ELSE 0)
    /\ Quiet /\ ~SelfLinked =>
          \A d \in TopDevices \cap Reachable :
              sysfs.dirs[d].uevent = "ok" =>
                 /\ plug[d] \in {"boot", "early"} => seen[d] = 1
                 /\ plug[d] = "late" /\ d \in Attempted => seen[d] = 2

\* a run in which one disk is seen once and the other twice
SeenTwice ==
    /\ Quiet
    /\ sysfs = HotTree
    /\ plug["A"] = "boot" /\ seen["A"] = 1
    /\ plug["B"] = "late" /\ seen["B"] = 2 /\ OkWrites("B") = 1

(***************************************************************************)
(* The handoff: the rule list and vold.has_adoptable.                      *)
(***************************************************************************)
Published == hasAdoptableProp # "unset"

\* C12 as stated: by the time a command listener has been started the rule
\* list is registered and the has_adoptable value is published.
C12_HandoffBeforeListeners ==
    clStarted \/ cclStarted => configResult # "pending" /\ Published

\* C12, amended: the rule list is registered before either command
\* listener is started and does not change afterwards; vold.has_adoptable
\* is published at most once per run, with the value process_config left
\* in has_adoptable, and only after both command listeners have started.
C12_RulesBeforeListenersPublishAfter ==
    /\ [](clStarted \/ cclStarted => configResult # "pending")
    /\ [][(pc \in {"cl_start", "ccl_start"} \/ clStarted) => (diskSources' = diskSources)]_vars
    /\ [](Published => clStarted /\ cclStarted)
    /\ [][Published => (hasAdoptableProp' = hasAdoptableProp)]_vars
    /\ [][(hasAdoptableProp' # hasAdoptableProp) =>
            (hasAdoptableProp' = IF has_adoptable THEN "1" ELSE "0")]_vars

C12_Witness ==
    /\ Published
    /\ clStarted /\ cclStarted
    /\ pc = "sleep"
    /\ Len(diskSources) >= 2
    /\ hasAdoptableProp = "1"

(***************************************************************************)
(* The walk run twice.  vold_main calls coldboot once (a second call, on   *)
(* /sys/class/switch, is commented out at line 135); to compare two runs   *)
(* of the walk on one tree, SpecTwice lets coldboot("/sys/block") be       *)
(* called once more after it has returned.                                 *)
(***************************************************************************)
AgainMark == [op |-> "again", dir |-> ROOT, lvl |-> 0, result |-> "", data |-> <<>>]

Agains == {k \in LogIndex : visitLog[k].op = "again"}

\* coldboot("/sys/block") is called a second time
ColdbootAgain ==
    /\ pc = StepAfter("coldboot")
    /\ Agains = {}
    /\ visitLog # <<>>
    /\ pc' = "coldboot"
    /\ visitLog' = Append(visitLog, AgainMark)
    /\ UNCHANGED <<contexts, envVars, configVars, netlinkVars, stack, listenerVars>>

NextTwice == Next \/ ColdbootAgain

\* the walk does not read what process_config read: the fstab, the command
\* line and the options are the default ones, the tree varies
InitTwice ==
    /\ Init
    /\ argv = RequiredContexts
    /\ fstabFile = DefaultFstab
    /\ procCmdline = DefaultCmdline
    /\ debugProp = FALSE
    /\ has_adoptable = FALSE
    /\ sysfs.dirs[ROOT].uevent = "absent"

SpecTwice == InitTwice /\ [][NextTwice]_vars

\* the directories whose uevent file the first and the second walk went for
FirstWalk == {visitLog[k].dir : k \in {j \in Attempts : \A a \in Agains : j < a}}
SecondWalk == {visitLog[k].dir : k \in {j \in Attempts : \E a \in Agains : j > a}}

BothWalksDone == WalkDone /\ Agains # {}

\* C13: two runs of the walk on a tree that did not change in between go
\* for the uevent file of the same set of directories, and that set is the
\* one the tree fixes (the directories the recursion policy reaches),
\* whatever the order in which readdir returned the entries in either run
\* and whether the writes of either run succeeded or failed.
C13_SameTargetsBothTimes ==
    BothWalksDone /\ TreeStable =>
        /\ FirstWalk = SecondWalk
        /\ SecondWalk = Reachable

C13_Witness ==
    /\ BothWalksDone /\ TreeStable
    /\ sysfs.dirs["A"].uevent = "flaky"
    /\ \E j, k \in Attempts :
          /\ j < k
          /\ visitLog[j].dir = "A" /\ visitLog[j].result = "wfail"
          /\ visitLog[k].dir = "A" /\ visitLog[k].result = "ok"
    /\ \E j, k \in Attempts : \E a \in Agains :
          /\ j < k /\ k < a
          /\ visitLog[j].dir = "A" /\ visitLog[k].dir = "B"
    /\ \E j, k \in Attempts : \E a \in Agains :
          /\ a < j /\ j < k
          /\ visitLog[j].dir = "B" /\ visitLog[k].dir = "A"
    /\ SecondWalk = {"R", "A", "A1", "A2", "B", "B1"}

(***************************************************************************)
(* What ends the process.                                                  *)
(***************************************************************************)
\* a required option is missing, a singleton is missing, or a manager or a
\* listener did not start
SubsystemFailurePcs ==
    {"abort_check", "exit_instance", "exit_vm_start", "exit_nm_start",
     "exit_cl_start", "exit_ccl_start"}

\* the process has ended where the missing dependency was found, with
\* nothing of the later steps done
FatalDependenciesStopBootstrap ==
    /\ pc = "abort_check" =>
          /\ contexts # RequiredContexts
          /\ configResult = "pending" /\ diskSources = <<>>
          /\ ~nmStarted /\ visitLog = <<>> /\ ~clStarted /\ ~Published
    /\ pc \in {"exit_instance", "exit_vm_start"} =>
          configResult = "pending" /\ diskSources = <<>> /\ ~nmStarted /\ visitLog = <<>>
    /\ pc = "exit_nm_start" => ~nmStarted /\ visitLog = <<>> /\ stack = <<>>
    /\ pc \in {"exit_cl_start", "exit_ccl_start"} => ~Published

\* C14 as stated: a missing startup dependency ends the process where it
\* is found (no manager, rule or walk after missing options; no rule after
\* a failed VolumeManager start; no walk after a failed NetlinkManager
\* start; no vold.has_adoptable after a failed command listener), and
\* nothing else ends the process.
C14_OnlyMissingDependenciesAreFatal ==
    /\ FatalDependenciesStopBootstrap
    /\ ~Alive => pc \in SubsystemFailurePcs

(***************************************************************************)
(* The rule made from the SDCARD= token.                                   *)
(***************************************************************************)
\* C17 as stated: for every non-empty SDCARD= token the scan registers a
\* rule and process_config returns normally; parsing the trailing digit
\* run never ends the process and gives the run's decimal value, however
\* long the run is.
C17_ScanAlwaysRegistersRule ==
    ScanDone =>
        /\ pc \in AfterConfigPcs \cup SubsystemFailurePcs
        /\ configResult = "ok"
        /\ diskSources # <<>> /\ IsSdcardRule(LastRule)
        /\ RefHasPartition(sdcard, isDisk) =>
               ToNumeral(LastRule.partnum) = Numeral(RefRun(sdcard))

\* the token without its trailing digit run
Stem(token) == SubSeq(token, 1, Len(token) - RefRunLen(token))

\* how many characters the partition suffix of a token has: the digit run
\* and, for a name with mmcblk or nvme in it, the one character before it
SuffixLen(token) ==
    RefRunLen(token)
    + (IF Contains(Stem(token), MMCBLK) \/ Contains(Stem(token), NVME) THEN 1 ELSE 0)

C18_AdoptableIffAdoptableRule ==
    configResult = "ok" =>
        /\ has_adoptable <=> \E k \in 1..Len(diskSources) : kAdoptable \in diskSources[k].flags
        /\ \A j \in 1..Len(fstab[1]) :
              fstab[1][j].voldmanaged =>
                 (kAdoptable \in RuleOfRecord(j).flags <=> fstab[1][j].encryptable)
        /\ ScanDone =>
              /\ LastRule.flags = {kAdoptable}
              /\ LastRule.fstype = <<"a", "u", "t", "o">>
              /\ LastRule.mntopts = <<>>

C18_Witness ==
    /\ configResult = "ok"
    /\ ~ScanDone
    /\ has_adoptable
    /\ \E k \in 1..Len(diskSources) : kAdoptable \in diskSources[k].flags
    /\ \E k \in 1..Len(diskSources) : kAdoptable \notin diskSources[k].flags

\* process_config returned success and no rule is adoptable
NothingAdoptable ==
    /\ configResult = "ok"
    /\ ~has_adoptable
    /\ diskSources # <<>>

AllDigits(token) == \A k \in 1..Len(token) : isdigit(token[k])

\* C19 as stated: every rule made from the SDCARD= token has a non-empty
\* name that is a prefix of the token, and its pattern is "/devices/*/"
\* followed by that name, never the bare "/devices/*/".
C19_NameNeverEmpty ==
    SdcardRuleAdded =>
        /\ LastRule.nickname # <<>>
        /\ IsPrefix(LastRule.nickname, sdcard)
        /\ LastRule.sysPattern = DEVICES_PREFIX \o LastRule.nickname
        /\ LastRule.sysPattern # DEVICES_PREFIX

\* C19, amended: every rule made from the SDCARD= token has a name that is
\* a prefix of the token and a pattern that is "/devices/*/" followed by
\* that name, so the pattern is never empty; the name is empty, and the
\* pattern the bare "/devices/*/", exactly when the token is made of digits
\* only and was not found to be a whole disk.  Names with mmcblk or nvme
\* and no separator lose their last character and stay non-empty.
C19_NamePrefixEmptyOnlyForDigits ==
    SdcardRuleAdded =>
        /\ IsPrefix(LastRule.nickname, sdcard)
        /\ LastRule.sysPattern = DEVICES_PREFIX \o LastRule.nickname
        /\ LastRule.sysPattern # <<>>
        /\ LastRule.nickname = <<>> <=> AllDigits(sdcard) /\ ~isDisk
        /\ LastRule.sysPattern = DEVICES_PREFIX <=> AllDigits(sdcard) /\ ~isDisk

C19_Witness ==
    /\ SdcardRuleAdded
    /\ sdcard = <<"1", "2">>
    /\ ~isDisk
    /\ LastRule.nickname = <<>>
    /\ LastRule.sysPattern = <<"/", "d", "e", "v", "i", "c", "e", "s", "/", "*", "/">>
    /\ LastRule.partnum = 12

\* a name with mmcblk in it and no separator before the digits
NoSeparatorName ==
    /\ SdcardRuleAdded
    /\ sdcard = <<"m", "m", "c", "b", "l", "k", "0">>
    /\ ~isDisk
    /\ LastRule.nickname = <<"m", "m", "c", "b", "l">>

(***************************************************************************)
(* Termination of the walk.  vold_main runs on the main thread of the     *)
(* process; every step of it is an ordinary blocking call on sysfs or a    *)
(* local computation, which returns, and the scheduler keeps running the   *)
(* thread: a step of the main thread that can be taken is taken.           *)
(***************************************************************************)
MainThread ==
    \/ ParseArgs \/ Instance \/ VmStart
    \/ ReadFstab \/ FstabLoop \/ ScanCmdline
    \/ NmStart \/ Coldboot \/ WriteUevent \/ ReadEntry \/ ReturnFromDir
    \/ ClStart \/ CclStart \/ PropertySet

\* the trees the walk is followed on to its end: those with a link from
\* /sys/block to itself, the two-disk tree, and the trees in which every
\* kind of entry turns up below a writable disk
FairTrees ==
    SelfTrees \cup {HotTree, SmallTree, NoTree}
    \cup {t \in Trees : /\ t.dirs[ROOT].uevent = "ok"
                         /\ t.dirs["A"].uevent = "ok"
                         /\ \E e \in t.dirs[ROOT].entries :
                               e.target = "B" /\ e.d_type = "DT_LNK"}

\* the walk does not read what process_config read: the fstab, the command
\* line and the options are the default ones
InitFair ==
    /\ Init
    /\ argv = RequiredContexts
    /\ fstabFile = DefaultFstab
    /\ procCmdline = DefaultCmdline
    /\ debugProp = FALSE
    /\ has_adoptable = FALSE
    /\ sysfs \in FairTrees

FairSpec == InitFair /\ [][Next]_vars /\ WF_vars(MainThread)

\* the deepest nesting of do_coldboot calls a tree of these directories
\* allows: once through /sys/block by a link of the root, then a chain of
\* real directories
MaxDepth == Cardinality(DirIds) + 1

\* C16: once coldboot is called the walk comes to an end and vold_main
\* goes on to start the command listener, on every tree, also when an
\* entry of /sys/block is a link to a directory elsewhere in the tree
\* (/sys/block itself included); the nesting of do_coldboot calls stays
\* within what the tree allows, so no cycle is walked; and the walk, once
\* over, is not gone into again.
C16_WalkTerminates ==
    /\ (pc \in {"coldboot", "walk"}) ~> (pc = "cl_start")
    /\ [](Len(stack) <= MaxDepth)
    /\ [][(pc \in AfterColdbootPcs) => (pc' \in AfterColdbootPcs)]_vars

C16_Witness ==
    /\ pc = "cl_start"
    /\ SelfLinked
    /\ stack = <<>>
    /\ \E k \in Attempts : visitLog[k].dir = ROOT /\ visitLog[k].lvl = 1
    /\ \E k \in Attempts : visitLog[k].dir = "A2" /\ visitLog[k].lvl = 4

====
